---- MODULE Spec2Model ----
(***************************************************************************)
(* Model of gitlab-registry-cleanup-hook.py: one webhook request at a time *)
(* is validated (validate), its image names are resolved                   *)
(* (get_image_delete_list) and every tag of every image is deleted         *)
(* (cleanup / delete_image).  The project API (gl), the registry client    *)
(* (client) and the HTTP layer are the environment: each call returns one  *)
(* of the results the library can produce.                                 *)
(*                                                                         *)
(* Strings that the code only compares are TLA+ strings; strings that the  *)
(* code cuts, substitutes or rewrites (branch, template, image name) are   *)
(* sequences of one-character strings.  A template placeholder is one      *)
(* element of the sequence.                                                *)
(*                                                                         *)
(* calls is the history of the calls made for the request.  messages2,     *)
(* status2 and logged2 belong to a second run of cleanup on the same       *)
(* request and the same responses, in which every error raised has another *)
(* text: the pair of runs states what a response may depend on.            *)
(***************************************************************************)
EXTENDS Integers, Sequences, FiniteSets, TLC

\* ------------------------------------------------------------------ bounds
\* longest tag list the registry returns for one image
MaxTags == 2

\* --------------------------------------------------------------- alphabet
LowerLetters ==
    {"a","b","c","d","e","f","g","h","i","j","k","l","m",
     "n","o","p","q","r","s","t","u","v","w","x","y","z"}

DigitChars == {"0","1","2","3","4","5","6","7","8","9"}

\* the class [a-z0-9-] of both regular expressions
SlugChars == LowerLetters \cup DigitChars \cup {"-"}

\* the class [a-z0-9]
AlnumChars == LowerLetters \cup DigitChars

\* the ASCII letters, uppercase and lowercase in the same order
UpperAlphabet ==
    <<"A","B","C","D","E","F","G","H","I","J","K","L","M",
      "N","O","P","Q","R","S","T","U","V","W","X","Y","Z">>

LowerAlphabet ==
    <<"a","b","c","d","e","f","g","h","i","j","k","l","m",
      "n","o","p","q","r","s","t","u","v","w","x","y","z">>

\* str.lower() on one ASCII character
LowerChar(c) ==
    IF \E k \in 1..26 : UpperAlphabet[k] = c
    THEN LowerAlphabet[CHOOSE k \in 1..26 : UpperAlphabet[k] = c]
    ELSE c

\* str.lower()
lower(s) == [k \in 1..Len(s) |-> LowerChar(s[k])]

\* the slice bound of CI_COMMIT_REF_SLUG[:63]
SlugMaxLen == 63

\* s[:n]
Prefix(s, n) == SubSeq(s, 1, IF Len(s) < n THEN Len(s) ELSE n)

\* re.sub('[^a-z0-9-]+', '-', s): every maximal run of characters outside
\* the class becomes one hyphen
RECURSIVE SubRuns(_, _)
SubRuns(s, inRun) ==
    IF s = <<>> THEN <<>>
    ELSE IF Head(s) \in SlugChars
         THEN <<Head(s)>> \o SubRuns(Tail(s), FALSE)
         ELSE IF inRun THEN SubRuns(Tail(s), TRUE)
              ELSE <<"-">> \o SubRuns(Tail(s), TRUE)

\* number of leading hyphens of s
RECURSIVE LeadingHyphens(_)
LeadingHyphens(s) ==
    IF s = <<>> \/ Head(s) # "-" THEN 0 ELSE 1 + LeadingHyphens(Tail(s))

\* index of the last character of s in [a-z0-9], 0 when there is none
LastAlnum(s) ==
    LET idx == {k \in 1..Len(s) : s[k] \in AlnumChars}
    IN  IF idx = {} THEN 0 ELSE CHOOSE k \in idx : \A m \in idx : m <= k

\* re.sub('^-*([a-z0-9-]+[a-z0-9])-*$', '\\1', s).  The pattern is anchored
\* at both ends, so it matches the whole string or nothing.  '^-*' is greedy
\* and backtracks: it keeps the largest number k of leading hyphens for which
\* the rest still matches; the group then runs from k+1 to the last
\* alphanumeric and needs at least two characters.  No match: s unchanged.
StripOuter(s) ==
    LET last == LastAlnum(s)
        ks   == {k \in 0..LeadingHyphens(s) : last - k >= 2}
    IN  IF (\E n \in 1..Len(s) : s[n] \notin SlugChars) \/ ks = {}
        THEN s
        ELSE LET k == CHOOSE x \in ks : \A y \in ks : y <= x
             IN  SubSeq(s, k + 1, last)

\* faulty variant of CI_COMMIT_REF_SLUG: line 126 runs before line 125
CI_COMMIT_REF_SLUG_strip_first(source_branch) ==
    SubRuns(StripOuter(Prefix(lower(source_branch), SlugMaxLen)), FALSE)

\* lines 123-126
CI_COMMIT_REF_SLUG(source_branch) ==
    StripOuter(SubRuns(Prefix(lower(source_branch), SlugMaxLen), FALSE))

\* -------------------------------------------------------------- templates
\* the placeholders of a template, each one element of the sequence
PH_project_path == "%(project_path)s"

PH_branch == "%(branch)s"

\* the default of config.get('IMAGE_NAME_TEMPLATE', ...)
DefaultImageTemplate == <<PH_project_path, "/", PH_branch>>

\* str.split(','): the pieces of s between commas, in order
RECURSIVE split(_, _)
split(s, piece) ==
    IF s = <<>> THEN <<piece>>
    ELSE IF Head(s) = "," THEN <<piece>> \o split(Tail(s), <<>>)
         ELSE split(Tail(s), Append(piece, Head(s)))

\* template % attributes
RECURSIVE format(_, _)
format(template, attributes) ==
    IF template = <<>> THEN <<>>
    ELSE (IF Head(template) = PH_branch THEN attributes.branch
          ELSE IF Head(template) = PH_project_path THEN attributes.project_path
          ELSE <<Head(template)>>) \o format(Tail(template), attributes)

\* faulty variant of ImageList: the branch is substituted as it came
ImageList_raw_branch(image_template, source_branch, path_with_namespace) ==
    LET attributes == [branch       |-> source_branch,
                       project_path |-> path_with_namespace]
        pieces     == split(image_template, <<>>)
    IN  [k \in 1..Len(pieces) |-> format(pieces[k], attributes)]

\* lines 128-135: one image name per piece of the template, in order
ImageList(image_template, source_branch, path_with_namespace) ==
    LET attributes == [branch       |-> CI_COMMIT_REF_SLUG(source_branch),
                       project_path |-> path_with_namespace]
        pieces     == split(image_template, <<>>)
    IN  [k \in 1..Len(pieces) |-> format(pieces[k], attributes)]

\* ---------------------------------------------------------- configuration
\* an environment variable: unset, or set to a value
Unset(v) == [set |-> FALSE, value |-> v]

IsSet(v) == [set |-> TRUE, value |-> v]

\* Config.get(name, default) for a name that is not a secret
ConfigGet(e, name, default) ==
    IF e[name].set THEN e[name].value ELSE default

\* the environments the service is started in
Environments ==
    { [IMAGE_NAME_TEMPLATE |-> t, IMAGE_NAME_PROJECT_ATTRIBUTE |-> a] :
        t \in {Unset(<<>>),
               IsSet(<<PH_project_path, "/", "a">>)},
        a \in {Unset(""), IsSet("image_name")} }

\* --------------------------------------------------------------- requests
NoHeader == "<none>"

TokenHeaders == {"secret", "wrong", NoHeader}

EventHeaders == {"Merge Request Hook", "System Hook", "Push Hook", NoHeader}

\* the keys of a complete merge-request event
AllKeys ==
    {"event_type", "object_attributes", "state", "source",
     "path_with_namespace", "source_branch", "project", "id"}

ProjectPath == <<"g","/","a">>

\* request.json: "dict" with the keys present, "none" when the body is not
\* sent as JSON or is empty, "invalid" when the JSON does not parse
Event(keys, event_type, state, branch) ==
    [json |-> "dict", keys |-> keys, event_type |-> event_type,
     state |-> state, path_with_namespace |-> ProjectPath,
     source_branch |-> branch, id |-> 7]

\* the source branch of the events
AnyBranch == <<"F","i","x","_","1">>

MergedEvent(branch) == Event(AllKeys, "merge_request", "merged", branch)

Bodies ==
    {MergedEvent(AnyBranch)}
    \cup {Event(AllKeys \ {k}, "merge_request", "merged", AnyBranch) : k \in AllKeys}
    \cup {Event(AllKeys, "merge_request", "opened", AnyBranch),
          Event(AllKeys, "push", "merged", AnyBranch),
          Event({"event_type"}, "push", "merged", AnyBranch),
          [MergedEvent(AnyBranch) EXCEPT !.json = "none"],
          [MergedEvent(AnyBranch) EXCEPT !.json = "invalid"]}

\* ---------------------------------------------------------------- state
VARIABLES
    env,            \* config.env, read at startup
    hook_token,     \* the module-level hook_token
    headers,        \* the request's X-GITLAB-TOKEN and X-GITLAB-EVENT
    data,           \* request.json of the request
    pc,             \* position of the handler
    project,        \* result of gl.projects.get(project_id)
    lookup,         \* result of project.customattributes.get
    image_template, \* image_template of get_image_delete_list
    images,         \* the names the generator yields
    i,              \* index of the image of the for loop of cleanup
    tags,           \* result of client.get_tags(image)
    j,              \* index of the tag of the inner for loop
    messages,       \* messages of cleanup
    status,         \* status of cleanup
    logged,         \* the error caught and logged for the last tag, "" if none
    messages2,      \* messages of a second run that gets the same responses
    status2,        \* status of the second run
    logged2,        \* the error caught and logged for the last tag by the second run
    calls,          \* the calls made to gl and client, with their results
    response,       \* what the handler returned or raised
    branch,         \* a source_branch given to lines 123-126 on its own
    slug,           \* CI_COMMIT_REF_SLUG after lines 123-126
    slug2,          \* CI_COMMIT_REF_SLUG after lines 123-126 applied to slug
    spc,            \* how far the slug computation is
    reqs,           \* the locals of cleanup in each of two concurrent requests
    default_headers \* the dict that is the default of headers (line 20)

\* the variables of the handler of one request
handler == <<env, hook_token, headers, data, pc, project, lookup, image_template,
             images, i, tags, j, messages, status, logged, messages2, status2,
             logged2, calls, response>>

\* the variables of the slug computation on its own
slugvars == <<branch, slug, slug2, spc>>

\* the variables of the concurrent requests
concvars == <<reqs, default_headers>>

others == <<slugvars, concvars>>

vars == <<handler, slugvars, concvars>>

config == <<env, hook_token>>

request == <<headers, data>>

\* ------------------------------------------------------------- responses
NoResponse == [kind |-> "none", status |-> 0, body |-> <<>>, error |-> "", at |-> ""]

\* line 51
NoContentResponse ==
    [kind |-> "HTTPResponse", status |-> 204, body |-> <<>>, error |-> "", at |-> ""]

\* lines 19-23
JsonResponse(body, st) ==
    [kind |-> "JsonResponse", status |-> st, body |-> body, error |-> "", at |-> ""]

\* an exception that leaves the handler
Raised(exc, where) ==
    [kind |-> "error", status |-> 500, body |-> <<>>, error |-> exc, at |-> where]

\* ------------------------------------------------------------ validate
\* faulty variant of TokenMatches: a request without the header is let in
TokenMatches_or_absent(h, token) == h.token = token \/ h.token = NoHeader

\* line 87: the comparison of the X-GITLAB-TOKEN header
TokenMatches(h, token) == h.token = token

\* line 90: the allow-list of X-GITLAB-EVENT
EventAllowed(h) == h.event \in {"Merge Request Hook", "System Hook"}

\* d[k1][k2]...: the first key of the path that is missing, "" when none is
RECURSIVE MissingKey(_, _)
MissingKey(d, path) ==
    IF path = <<>> THEN ""
    ELSE IF Head(path) \notin d.keys THEN Head(path)
         ELSE MissingKey(d, Tail(path))

\* line 96: the test that lets only merged merge requests through.  'or'
\* short-circuits, so the state is read only for a merge_request event.
NotMergedMergeRequest(d) ==
    d.event_type # "merge_request" \/ d.state # "merged"

\* lines 87-101 up to the call of gl.projects.get: "reject" (return
\* NoContentResponse), "raise" with the exception, or "pass"
Gate(h, token, d) ==
    IF ~TokenMatches(h, token) THEN [do |-> "reject", exc |-> ""]
    ELSE IF ~EventAllowed(h) THEN [do |-> "reject", exc |-> ""]
    ELSE IF d.json = "invalid" THEN [do |-> "raise", exc |-> "InvalidJSON"]
    ELSE IF d.json = "none" THEN [do |-> "raise", exc |-> "TypeError"]
    ELSE IF "event_type" \notin d.keys THEN [do |-> "reject", exc |-> ""]
    ELSE IF d.event_type = "merge_request"
            /\ MissingKey(d, <<"object_attributes", "state">>) # ""
         THEN [do |-> "raise", exc |-> "KeyError"]
    ELSE IF NotMergedMergeRequest(d) THEN [do |-> "reject", exc |-> ""]
    ELSE IF MissingKey(d, <<"object_attributes", "source", "path_with_namespace">>) # ""
         THEN [do |-> "raise", exc |-> "KeyError"]
    ELSE IF MissingKey(d, <<"project", "id">>) # ""
         THEN [do |-> "raise", exc |-> "KeyError"]
    ELSE [do |-> "pass", exc |-> ""]

\* the status the HTTP layer gives an exception: request.json raises
\* HTTPError(400) or ValueError on invalid JSON, depending on the bottle
\* release; every other exception is a 500
ErrorStatuses(exc) == IF exc = "InvalidJSON" THEN {400, 500} ELSE {500}

\* the results of gl.projects.get(project_id)
ProjectResults ==
    {"enabled", "disabled", "GitlabGetError", "GitlabAuthenticationError"}

\* faulty variant of container_registry_enabled: the flag is not read
container_registry_enabled_unread(p) == TRUE

\* line 104: project.attributes['container_registry_enabled']
container_registry_enabled(p) == p = "enabled"

\* a call of gl or client with its result
Call(op, image, tag, result) ==
    [op |-> op, image |-> image, tag |-> tag, result |-> result, tags |-> <<>>]

\* ----------------------------------------------------------------- Init
\* the concurrent requests
Requests == {1, 2}

\* the locals of a cleanup that has not started, and no response yet
IdleRequest ==
    [pc |-> "idle", images |-> <<>>, i |-> 1,
     tags |-> [shape |-> "unfetched", tags |-> <<>>], j |-> 1,
     messages |-> <<>>, status |-> 200, calls |-> <<>>,
     response |-> [kind |-> "none", status |-> 0, body |-> <<>>, headers |-> {}]]

\* no slug is computed on its own
SlugOff == branch = <<>> /\ slug = <<>> /\ slug2 = <<>> /\ spc = "off"

\* no concurrent request runs
ConcOff == reqs = [r \in Requests |-> IdleRequest] /\ default_headers = {}

\* the service after startup (lines 196-200), no request received
HandlerIdle ==
    /\ env \in Environments
    /\ hook_token = "secret"
    /\ headers = [token |-> NoHeader, event |-> NoHeader]
    /\ data = [MergedEvent(AnyBranch) EXCEPT !.json = "none"]
    /\ pc = "idle"
    /\ project = "unfetched"
    /\ lookup = [exc |-> "unused", code |-> 0, value |-> <<>>]
    /\ image_template = <<>>
    /\ images = <<>>
    /\ i = 1
    /\ tags = [shape |-> "unfetched", tags |-> <<>>]
    /\ j = 1
    /\ messages = <<>>
    /\ status = 200
    /\ logged = ""
    /\ messages2 = <<>>
    /\ status2 = 200
    /\ logged2 = ""
    /\ calls = <<>>
    /\ response = NoResponse

Init == HandlerIdle /\ SlugOff /\ ConcOff

\* the state of a handler that has not run yet
Fresh ==
    /\ project' = "unfetched"
    /\ lookup' = [exc |-> "unused", code |-> 0, value |-> <<>>]
    /\ image_template' = <<>>
    /\ images' = <<>>
    /\ i' = 1
    /\ tags' = [shape |-> "unfetched", tags |-> <<>>]
    /\ j' = 1
    /\ messages' = <<>>
    /\ status' = 200
    /\ logged' = ""
    /\ messages2' = <<>>
    /\ status2' = 200
    /\ logged2' = ""
    /\ calls' = <<>>
    /\ response' = NoResponse

\* the HTTP layer hands a request to the route (line 85)
Receive ==
    /\ pc = "idle"
    /\ headers' \in [token : TokenHeaders, event : EventHeaders]
    /\ data' \in Bodies
    /\ pc' = "validate"
    /\ Fresh
    /\ UNCHANGED <<config, others>>

\* the HTTP layer has sent the response: everything of the request is gone
Respond ==
    /\ pc = "done"
    /\ pc' = "idle"
    /\ headers' = [token |-> NoHeader, event |-> NoHeader]
    /\ data' = [MergedEvent(AnyBranch) EXCEPT !.json = "none"]
    /\ Fresh
    /\ UNCHANGED <<config, others>>

\* lines 86-101: the checks before the project is fetched
validate ==
    /\ pc = "validate"
    /\ LET g == Gate(headers, hook_token, data)
       IN  \/ /\ g.do = "reject"
              /\ pc' = "done"
              /\ response' = NoContentResponse
           \/ /\ g.do = "raise"
              /\ pc' = "done"
              /\ \E st \in ErrorStatuses(g.exc) :
                    response' = [Raised(g.exc, "validate") EXCEPT !.status = st]
           \/ /\ g.do = "pass"
              /\ pc' = "project"
              /\ UNCHANGED response
    /\ UNCHANGED <<config, request, project, lookup, image_template, images, i,
                   tags, j, messages, status, logged, messages2, status2,
                   logged2, calls, others>>

\* lines 102-108: gl.projects.get, the registry-enabled flag, and the call
\* of cleanup (lines 155-156)
validate_project ==
    /\ pc = "project"
    /\ \E p \in ProjectResults :
        /\ project' = p
        /\ calls' = Append(calls, Call("getProject", <<>>, 0, p))
        /\ IF p \in {"GitlabGetError", "GitlabAuthenticationError"}
           THEN pc' = "done" /\ response' = Raised(p, "validate")
           ELSE IF ~container_registry_enabled(p)
                THEN pc' = "done" /\ response' = NoContentResponse
                ELSE pc' = "resolve" /\ UNCHANGED response
    /\ UNCHANGED <<config, request, lookup, image_template, images, i, tags, j,
                   messages, status, logged, messages2, status2, logged2, others>>

\* ----------------------------------------------- get_image_delete_list
\* the value of the custom attribute of the project
AttributeTemplate ==
    <<PH_project_path, "/", PH_branch, ",", PH_project_path, "/", "c", "/", PH_branch>>

\* the results of project.customattributes.get(project_attribute): the
\* attribute, GitlabGetError (raised for every failed GET: 404 not found,
\* 403 forbidden, 500 server error), or GitlabAuthenticationError (401)
LookupResults ==
    { [exc |-> "none", code |-> 200, value |-> AttributeTemplate],
      [exc |-> "GitlabGetError", code |-> 404, value |-> <<>>],
      [exc |-> "GitlabGetError", code |-> 403, value |-> <<>>],
      [exc |-> "GitlabGetError", code |-> 500, value |-> <<>>],
      [exc |-> "GitlabAuthenticationError", code |-> 401, value |-> <<>>] }

\* line 114: 'if project_attribute:' is false for None and for ''
UsesProjectAttribute(e) ==
    ConfigGet(e, "IMAGE_NAME_PROJECT_ATTRIBUTE", "") # ""

\* faulty variant of LookupCaught: a bare except
LookupCaught_any(r) == TRUE

\* line 120: the except clause names the class only, whatever the code
LookupCaught(r) == r.exc = "GitlabGetError"

\* lines 112-121: the template after the lookup r
SelectTemplate(e, r) ==
    LET default == ConfigGet(e, "IMAGE_NAME_TEMPLATE", DefaultImageTemplate)
    IN  IF r.exc = "none" THEN r.value ELSE default

\* lines 111-135, run when the for loop of cleanup asks the generator for
\* its first image: the lookup, the slug, and the names
get_image_delete_list ==
    /\ pc = "resolve"
    /\ \E r \in IF UsesProjectAttribute(env)
                THEN LookupResults
                ELSE {[exc |-> "unused", code |-> 0, value |-> <<>>]} :
        /\ lookup' = r
        /\ calls' = IF r.exc = "unused" THEN calls
                    ELSE Append(calls, Call("getCustomAttribute", <<>>, 0, r.exc))
        /\ IF r.exc \notin {"unused", "none"} /\ ~LookupCaught(r)
           THEN /\ pc' = "done"
                /\ response' = Raised(r.exc, "get_image_delete_list")
                /\ UNCHANGED <<image_template, images>>
           ELSE LET t == IF r.exc = "unused"
                         THEN ConfigGet(env, "IMAGE_NAME_TEMPLATE", DefaultImageTemplate)
                         ELSE SelectTemplate(env, r)
                IN  /\ image_template' = t
                    /\ IF "source_branch" \notin data.keys
                       THEN /\ pc' = "done"
                            /\ response' = Raised("KeyError", "get_image_delete_list")
                            /\ UNCHANGED images
                       ELSE /\ images' = ImageList(t, data.source_branch,
                                                   data.path_with_namespace)
                            /\ pc' = "images"
                            /\ UNCHANGED response
    /\ UNCHANGED <<config, request, project, i, tags, j, messages, status,
                   logged, messages2, status2, logged2, others>>

\* -------------------------------------------------------------- cleanup
\* tag names
TagName(n) == n

\* the tag lists a registry returns: the first n tags, newest first
TagLists == { [k \in 1..n |-> TagName(n + 1 - k)] : n \in 0..MaxTags }

\* the results of client.get_tags(image): a document with a list of tags,
\* with "tags": null, without "tags", or an HTTP error
TagsResults ==
    { [shape |-> "list", tags |-> l] : l \in TagLists }
    \cup { [shape |-> s, tags |-> <<>>] : s \in {"null", "absent", "HTTPError"} }

\* faulty variant of TagsMissing: only the missing key is tested
TagsMissing_key_only(t) == t.shape = "absent"

\* lines 160 and 165: no "tags" key, or "tags" is None
TagsMissing(t) == t.shape \in {"absent", "null"}

\* the text of the error raised under delete_image
ErrorDetails == {"401 Client Error: secret-A", "503 Server Error: host-B"}

\* the results of client.get_digest and client.delete_image for one tag:
\* digest is "found", "none" or the exception raised; deleted is "true",
\* "false", the exception raised, or "-" when delete_image is not reached.
\* requests raises HTTPError for a bad status, and ConnectionError or Timeout
\* (not subclasses of HTTPError) when the connection fails.
RegistryResults ==
    { [digest |-> "none", deleted |-> "-"],
      [digest |-> "HTTPError", deleted |-> "-"],
      [digest |-> "ConnectionError", deleted |-> "-"],
      [digest |-> "found", deleted |-> "true"],
      [digest |-> "found", deleted |-> "false"],
      [digest |-> "found", deleted |-> "HTTPError"],
      [digest |-> "found", deleted |-> "Timeout"] }

Exceptions == {"HTTPError", "ConnectionError", "Timeout"}

\* faulty variant of delete_image: the result of client.delete_image is not
\* tested
delete_image_result_unread(r) ==
    IF r.digest \in Exceptions
    THEN [exc |-> r.digest, message |-> "", code |-> 0]
    ELSE IF r.digest = "none"
    THEN [exc |-> "", message |-> "Image not found", code |-> 404]
    ELSE IF r.deleted \in Exceptions
    THEN [exc |-> r.deleted, message |-> "", code |-> 0]
    ELSE [exc |-> "", message |-> "Image deleted", code |-> 200]

\* lines 138-151: message and code, or the exception that passes through
delete_image(r) ==
    IF r.digest \in Exceptions
    THEN [exc |-> r.digest, message |-> "", code |-> 0]
    ELSE IF r.digest = "none"
    THEN [exc |-> "", message |-> "Image not found", code |-> 404]
    ELSE IF r.deleted \in Exceptions
    THEN [exc |-> r.deleted, message |-> "", code |-> 0]
    ELSE IF r.deleted = "true"
    THEN [exc |-> "", message |-> "Image deleted", code |-> 200]
    ELSE [exc |-> "", message |-> "Image not deleted", code |-> 202]

\* the calls delete_image makes on the client, with their results
DeleteCalls(image, tag, r) ==
    <<Call("getDigest", image, tag, r.digest)>>
    \o (IF r.digest = "found"
        THEN <<Call("deleteTag", image, tag, r.deleted)>> ELSE <<>>)

\* line 176: the except clause of the loop over the tags
IsHTTPError(exc) == exc = "HTTPError"

\* faulty variant of NextStatus: the highest code is kept
NextStatus_max(st, code) == IF code > st THEN code ELSE st

\* lines 174-175
NextStatus(st, code) == IF code # 200 THEN code ELSE st

\* faulty variant of HiddenMessage: the text of the error is the message
HiddenMessage_leak(detail) == detail

\* line 178: the message of a caught error, whose text is detail
HiddenMessage(detail) == "Underlying HTTP error. Details not disclosed."

\* lines 172-184 for one tag: the entry appended and the new status, or the
\* exception that leaves cleanup
TryDelete(image, tag, r, detail, st) ==
    LET d == delete_image(r)
    IN  IF d.exc = ""
        THEN [exc |-> "", status |-> NextStatus(st, d.code), logged |-> "",
              entry |-> [image |-> image, tag |-> tag,
                         message |-> d.message, code |-> d.code]]
        ELSE IF IsHTTPError(d.exc)
        THEN [exc |-> "", status |-> 500, logged |-> detail,
              entry |-> [image |-> image, tag |-> tag,
                         message |-> HiddenMessage(detail), code |-> 500]]
        ELSE [exc |-> d.exc, status |-> st, logged |-> "",
              entry |-> [image |-> image, tag |-> tag,
                         message |-> "", code |-> 0]]

\* lines 161-163 and 166-168
TagsNotFound == [message |-> "Tags not found"]

\* faulty variant of TagsNotFoundBody: the message replaces the outcomes
TagsNotFoundBody_alone(msgs) == <<TagsNotFound>>

\* lines 161-164 and 166-169: the body returned when the tags are missing
TagsNotFoundBody(msgs) == Append(msgs, TagsNotFound)

\* faulty variant of AppendMessage: the outcome is put in front
AppendMessage_in_front(msgs, entry) == <<entry>> \o msgs

\* lines 181-184: messages.append
AppendMessage(msgs, entry) == Append(msgs, entry)

\* the call of client.get_tags with the document it returned
ListTagsCall(image, t) ==
    [Call("listTags", image, 0, t.shape) EXCEPT !.tags = t.tags]

\* lines 158-169: the next image of the generator and its tags
cleanup_get_tags ==
    /\ pc = "images"
    /\ i <= Len(images)
    /\ \E t \in TagsResults :
        /\ tags' = t
        /\ calls' = Append(calls, ListTagsCall(images[i], t))
        /\ IF t.shape = "HTTPError"
           THEN /\ pc' = "done"
                /\ response' = Raised("HTTPError", "get_tags")
                /\ UNCHANGED <<messages, messages2, i, j>>
           ELSE IF TagsMissing(t)
           THEN /\ messages' = TagsNotFoundBody(messages)
                /\ messages2' = TagsNotFoundBody(messages2)
                /\ pc' = "done"
                /\ response' = JsonResponse(messages', status)
                /\ UNCHANGED <<i, j>>
           ELSE /\ IF t.tags = <<>>
                   THEN pc' = "images" /\ i' = i + 1
                   ELSE pc' = "tags" /\ UNCHANGED i
                /\ j' = 1
                /\ UNCHANGED <<messages, messages2, response>>
    /\ UNCHANGED <<config, request, project, lookup, image_template, images,
                   status, logged, status2, logged2, others>>

\* lines 171-184: one tag of the inner loop
cleanup_tag ==
    /\ pc = "tags"
    /\ \E r \in RegistryResults, detail \in ErrorDetails :
      \E detail2 \in ErrorDetails \ {detail} :
        LET image == images[i]
            tag   == tags.tags[j]
            run   == TryDelete(image, tag, r, detail, status)
            run2  == TryDelete(image, tag, r, detail2, status2)
        IN  /\ calls' = calls \o DeleteCalls(image, tag, r)
            /\ IF run.exc # ""
               THEN /\ pc' = "done"
                    /\ response' = Raised(run.exc, "delete_image")
                    /\ UNCHANGED <<messages, status, logged, messages2, status2,
                                   logged2, i, j>>
               ELSE /\ messages' = AppendMessage(messages, run.entry)
                    /\ status' = run.status
                    /\ logged' = run.logged
                    /\ messages2' = AppendMessage(messages2, run2.entry)
                    /\ status2' = run2.status
                    /\ logged2' = run2.logged
                    /\ IF j < Len(tags.tags)
                       THEN j' = j + 1 /\ UNCHANGED <<pc, i>>
                       ELSE pc' = "images" /\ i' = i + 1 /\ UNCHANGED j
                    /\ UNCHANGED response
    /\ UNCHANGED <<config, request, project, lookup, image_template, images, tags,
                   others>>

\* line 186: the generator is exhausted
cleanup_return ==
    /\ pc = "images"
    /\ i > Len(images)
    /\ pc' = "done"
    /\ response' = JsonResponse(messages, status)
    /\ UNCHANGED <<config, request, project, lookup, image_template, images, i,
                   tags, j, messages, status, logged, messages2, status2,
                   logged2, calls, others>>

Next ==
    \/ Receive
    \/ validate
    \/ validate_project
    \/ get_image_delete_list
    \/ cleanup_get_tags
    \/ cleanup_tag
    \/ cleanup_return
    \/ Respond

Spec == Init /\ [][Next]_vars

\* ----------------------------------------- requests served concurrently
\* the projects of the events received: the first request is for ProjectPath,
\* the second for the same project or for another
ProjectPaths(r) ==
    IF r = 1 THEN {ProjectPath} ELSE {ProjectPath, <<"g", "/", "b">>}

\* the service runs with the default template and no project attribute
DefaultEnvironment ==
    [IMAGE_NAME_TEMPLATE |-> Unset(<<>>), IMAGE_NAME_PROJECT_ATTRIBUTE |-> Unset("")]

\* the header set by JsonResponse
ContentType == "Content-Type: application/json"

\* line 20: headers['Content-Type'] = ... written into the dict given, which
\* is the default dict of the function when no headers are passed
SetContentType(hdrs) == hdrs \cup {ContentType}

\* the response of one request, with the headers it carries
Reply(kind, st, body, hdrs) ==
    [kind |-> kind, status |-> st, body |-> body, headers |-> hdrs]

\* faulty variant of Frame: messages is one list for all the requests
Frame_shared(rs, r) == [rs[r] EXCEPT !.messages = rs[1].messages]

\* lines 155-156: messages and status are locals of the call of cleanup
Frame(rs, r) == rs[r]

\* no request is served on the main handler
HandlerStays == UNCHANGED <<handler, slugvars>>

ConcInit == HandlerIdle /\ env = DefaultEnvironment /\ SlugOff /\ ConcOff

\* lines 154-158: request r is validated; rejected with the module's one
\* NoContentResponse (line 51), or its images are named
request_validate(r) ==
    /\ reqs[r].pc = "idle"
    /\ \E path \in ProjectPaths(r), accepted \in BOOLEAN :
        IF accepted
        THEN reqs' = [reqs EXCEPT
                 ![r].pc = "images",
                 ![r].images = ImageList(ConfigGet(env, "IMAGE_NAME_TEMPLATE",
                                                     DefaultImageTemplate),
                                           AnyBranch, path)]
        ELSE reqs' = [reqs EXCEPT
                 ![r].pc = "done",
                 ![r].response = Reply(NoContentResponse.kind,
                                       NoContentResponse.status, <<>>, {})]
    /\ UNCHANGED default_headers
    /\ HandlerStays

\* lines 158-169 in request r
request_get_tags(r) ==
    LET q == Frame(reqs, r)
    IN  /\ q.pc = "images"
        /\ q.i <= Len(q.images)
        /\ \E t \in TagsResults :
            LET cs == Append(q.calls, ListTagsCall(q.images[q.i], t))
            IN  IF t.shape = "HTTPError"
                THEN /\ reqs' = [reqs EXCEPT ![r] =
                            [q EXCEPT !.pc = "done", !.tags = t, !.calls = cs,
                                      !.response = Reply("error", 500, <<>>, {})]]
                     /\ UNCHANGED default_headers
                ELSE IF TagsMissing(t)
                THEN /\ default_headers' = SetContentType(default_headers)
                     /\ reqs' = [reqs EXCEPT ![r] =
                            [q EXCEPT !.pc = "done", !.tags = t, !.calls = cs,
                                      !.messages = TagsNotFoundBody(q.messages),
                                      !.response =
                                          Reply("JsonResponse", q.status,
                                                TagsNotFoundBody(q.messages),
                                                default_headers')]]
                ELSE /\ reqs' = [reqs EXCEPT ![r] =
                            [q EXCEPT !.tags = t, !.calls = cs, !.j = 1,
                                      !.pc = IF t.tags = <<>> THEN "images"
                                             ELSE "tags",
                                      !.i = IF t.tags = <<>> THEN q.i + 1
                                            ELSE q.i]]
                     /\ UNCHANGED default_headers
        /\ HandlerStays

\* lines 171-184 in request r
request_tag(r) ==
    LET q == Frame(reqs, r)
    IN  /\ q.pc = "tags"
        /\ \E res \in RegistryResults :
            LET image == q.images[q.i]
                tag   == q.tags.tags[q.j]
                run   == TryDelete(image, tag, res, "", q.status)
                cs    == q.calls \o DeleteCalls(image, tag, res)
            IN  IF run.exc # ""
                THEN reqs' = [reqs EXCEPT ![r] =
                         [q EXCEPT !.pc = "done", !.calls = cs,
                                   !.response = Reply("error", 500, <<>>, {})]]
                ELSE reqs' = [reqs EXCEPT ![r] =
                         [q EXCEPT !.calls = cs,
                                   !.messages = AppendMessage(q.messages, run.entry),
                                   !.status = run.status,
                                   !.pc = IF q.j < Len(q.tags.tags) THEN "tags"
                                          ELSE "images",
                                   !.i = IF q.j < Len(q.tags.tags) THEN q.i
                                         ELSE q.i + 1,
                                   !.j = IF q.j < Len(q.tags.tags) THEN q.j + 1
                                         ELSE q.j]]
        /\ UNCHANGED default_headers
        /\ HandlerStays

\* line 186 in request r
request_return(r) ==
    LET q == Frame(reqs, r)
    IN  /\ q.pc = "images"
        /\ q.i > Len(q.images)
        /\ default_headers' = SetContentType(default_headers)
        /\ reqs' = [reqs EXCEPT ![r] =
               [q EXCEPT !.pc = "done",
                         !.response = Reply("JsonResponse", q.status, q.messages,
                                            default_headers')]]
        /\ HandlerStays

ConcNext ==
    \E r \in Requests :
        \/ request_validate(r)
        \/ request_get_tags(r)
        \/ request_tag(r)
        \/ request_return(r)

ConcSpec == ConcInit /\ [][ConcNext]_vars

\* ------------------------------------------- the slug on its own
\* longest branch name tried, apart from the long ones
MaxBranchLen == 3

\* a lowercase letter, an uppercase letter, a digit, the hyphen and a
\* character outside the class
BranchAlphabet == {"a", "B", "1", "-", "/"}

\* the strings over BranchAlphabet of length at most n
RECURSIVE Strings(_)
Strings(n) ==
    IF n = 0 THEN {<<>>}
    ELSE Strings(n - 1)
         \cup {Append(x, c) : x \in Strings(n - 1), c \in BranchAlphabet}

\* branch names around the slice bound of line 124: 62 letters and up to
\* two more characters
LongBranches == {[k \in 1..(SlugMaxLen - 1) |-> "a"] \o x : x \in Strings(2)}

\* the values of data['object_attributes']['source_branch'] tried
BranchInputs == Strings(MaxBranchLen) \cup LongBranches

SlugInit ==
    /\ HandlerIdle
    /\ ConcOff
    /\ branch \in BranchInputs
    /\ slug = <<>>
    /\ slug2 = <<>>
    /\ spc = "branch"

\* lines 123-126 on the branch
slugify ==
    /\ spc = "branch"
    /\ slug' = CI_COMMIT_REF_SLUG(branch)
    /\ spc' = "slug"
    /\ UNCHANGED <<handler, concvars, branch, slug2>>

\* lines 123-126 on a branch whose name is the slug
slugify_again ==
    /\ spc = "slug"
    /\ slug2' = CI_COMMIT_REF_SLUG(slug)
    /\ spc' = "again"
    /\ UNCHANGED <<handler, concvars, branch, slug>>

SlugNext == slugify \/ slugify_again

SlugSpec == SlugInit /\ [][SlugNext]_vars

\* ============================================================== claims
RegistryOps == {"listTags", "getDigest", "deleteTag"}

CallIndexes == 1..Len(calls)

RegistryCalled == \E k \in CallIndexes : calls[k].op \in RegistryOps

NoContent(r) == r.kind = "HTTPResponse" /\ r.status = 204 /\ r.body = <<>>

ChecksOneToFour ==
    /\ headers.token = hook_token
    /\ headers.event \in {"Merge Request Hook", "System Hook"}
    /\ data.json = "dict"
    /\ "event_type" \in data.keys
    /\ data.event_type = "merge_request"
    /\ {"object_attributes", "state"} \subseteq data.keys
    /\ data.state = "merged"

\* C1: a registry call (listTags, getDigest, deleteTag) is made only for a
\* request that passed the five checks, the project API is called only after
\* checks 1-4 and before any registry call, and a "push" event ends with
\* the 204 response, an empty body and no call at all.
C1_GatesBeforeRegistry ==
    /\ RegistryCalled =>
          /\ ChecksOneToFour
          /\ project = "enabled"
          /\ calls[1].op = "getProject"
    /\ (\E k \in CallIndexes : calls[k].op = "getProject") => ChecksOneToFour
    /\ (pc = "done" /\ data.json = "dict" /\ "event_type" \in data.keys
        /\ data.event_type = "push")
          => NoContent(response) /\ calls = <<>>

C1_Witness ==
    /\ pc = "done"
    /\ \E k \in CallIndexes : calls[k].op = "deleteTag"
    /\ project = "enabled"

\* C2: a request whose token header differs from the hook token ends with
\* the 204 response and an empty body, whatever its event header and body,
\* and no call to the project API or the registry is made for it.
C2_TokenMismatchIs204 ==
    headers.token # hook_token =>
        /\ calls = <<>>
        /\ pc \in {"idle", "validate", "done"}
        /\ pc = "done" => NoContent(response)

C2_Witness ==
    /\ pc = "done"
    /\ headers.token = "wrong"
    /\ headers.event = "Merge Request Hook"
    /\ data.json = "invalid"
    /\ NoContent(response)

\* C3 (as claimed): a request that passed the token and event checks and
\* whose body does not parse or lacks a required field ends with the 204
\* response, never with an error, and deletes no tag.
C3_MalformedBodyIsNoOp ==
    (/\ pc = "done"
     /\ headers.token = hook_token
     /\ headers.event \in {"Merge Request Hook", "System Hook"}
     /\ (data.json # "dict" \/ data.keys # AllKeys))
        => /\ NoContent(response)
           /\ ~ \E k \in CallIndexes : calls[k].op = "deleteTag"

\* C4 (as claimed): when the project of a merged merge request does not
\* exist or has the registry disabled, the request ends with the 204
\* response, without error and without a registry call.
C4_MissingProjectIsRejected ==
    (pc = "done" /\ project \in {"GitlabGetError", "disabled"})
        => NoContent(response) /\ ~RegistryCalled

\* the entries of a body that are tag outcomes
IsOutcome(e) == "code" \in DOMAIN e

\* the code of the last outcome of body[1..n] that is not 200, else 200
RECURSIVE LastNon200(_, _)
LastNon200(body, n) ==
    IF n = 0 THEN 200
    ELSE IF IsOutcome(body[n]) /\ body[n].code # 200 THEN body[n].code
         ELSE LastNon200(body, n - 1)

\* C5: the status of the response of cleanup is the code of the last outcome
\* of the body whose code is not 200, and 200 when there is none.
C5_AggregateIsLastNon200 ==
    /\ status = LastNon200(messages, Len(messages))
    /\ (pc = "done" /\ response.kind = "JsonResponse")
          => response.status = LastNon200(response.body, Len(response.body))

C5_Witness ==
    /\ pc = "done"
    /\ response.kind = "JsonResponse"
    /\ \E k \in 1..Len(response.body) : \E m \in (k+1)..Len(response.body) :
          /\ IsOutcome(response.body[k]) /\ response.body[k].code = 500
          /\ IsOutcome(response.body[m]) /\ response.body[m].code = 202
          /\ \A n \in (m+1)..Len(response.body) :
                IsOutcome(response.body[n]) /\ response.body[n].code = 200
    /\ response.status = 202

\* a listTags call that found no tags field, or a null one
Aborting(k) ==
    calls[k].op = "listTags" /\ calls[k].result \in {"null", "absent"}

\* the index in images of the image of call k
ImageIndex(k) == CHOOSE n \in 1..Len(images) : images[n] = calls[k].image

\* C6 (as claimed): when listTags returns a null or absent tags field, the
\* body of the response is exactly one object, the message "Tags not found"
\* without image and tag, and no registry call follows.
C6_BodyIsOneMessage ==
    \A k \in CallIndexes : Aborting(k) =>
        /\ k = Len(calls)
        /\ pc = "done"
        /\ response.kind = "JsonResponse"
        /\ response.body = <<TagsNotFound>>

\* C6 (amended): when listTags returns a null or absent tags field for an
\* image, the response is returned at once: no registry call follows, the
\* body ends with exactly one object that is the message "Tags not found"
\* without image and tag, and everything before it is an outcome of a tag of
\* an earlier image.
C6_BodyEndsWithOneMessage ==
    \A k \in CallIndexes : Aborting(k) =>
        /\ k = Len(calls)
        /\ pc = "done"
        /\ response.kind = "JsonResponse"
        /\ LET body == response.body
               n    == Len(body)
           IN  /\ n >= 1
               /\ body[n] = TagsNotFound
               /\ DOMAIN body[n] = {"message"}
               /\ \A m \in 1..(n - 1) :
                     /\ IsOutcome(body[m])
                     /\ \E x \in 1..(ImageIndex(k) - 1) : body[m].image = images[x]

C6_Witness ==
    /\ pc = "done"
    /\ Len(images) = 2
    /\ Aborting(Len(calls))
    /\ calls[Len(calls)].image = images[2]
    /\ calls[Len(calls)].result = "null"
    /\ Len(response.body) = 3

\* the outcome in body of the tag of call k, if there is one
HasOutcome(body, k, message, code) ==
    \E m \in 1..Len(body) :
        /\ IsOutcome(body[m])
        /\ body[m].image = calls[k].image
        /\ body[m].tag = calls[k].tag
        /\ body[m].message = message
        /\ body[m].code = code

\* C7 (as claimed): a transport error (HTTP error, connection failure,
\* timeout) raised by getDigest or deleteTag for a tag gives that tag the
\* outcome ("Underlying HTTP error. Details not disclosed.", 500) and the
\* request goes on to a normal response.
C7_TransportErrorIsCaught ==
    \A k \in CallIndexes :
        (calls[k].op \in {"getDigest", "deleteTag"} /\ calls[k].result \in Exceptions)
            => /\ response.kind # "error"
               /\ HasOutcome(messages, k,
                             "Underlying HTTP error. Details not disclosed.", 500)

\* C8: two runs of cleanup that get the same event and the same responses
\* and differ only in the text of the errors raised under delete_image have
\* the same body and the same status, and no message of a response is the
\* text of an error.
C8_ErrorTextIsHidden ==
    /\ messages2 = messages
    /\ status2 = status
    /\ \A m \in 1..Len(messages) : messages[m].message \notin ErrorDetails
    /\ \A m \in 1..Len(response.body) : response.body[m].message \notin ErrorDetails
    /\ pc = "done" /\ response.kind = "JsonResponse"
          => response = JsonResponse(messages2, status2)

C8_Witness ==
    /\ pc = "done"
    /\ response.kind = "JsonResponse"
    /\ logged \in ErrorDetails
    /\ logged2 \in ErrorDetails
    /\ logged # logged2
    /\ Len(response.body) >= 2
    /\ IsOutcome(response.body[Len(response.body)])
    /\ response.body[Len(response.body)].code = 500
    /\ response.body[Len(response.body)].message # logged

\* the result the registry gave call op for the tag of outcome e, "-" if
\* the call was not made
ResultOf(op, e) ==
    IF \E k \in CallIndexes :
          calls[k].op = op /\ calls[k].image = e.image /\ calls[k].tag = e.tag
    THEN calls[CHOOSE k \in CallIndexes :
                  calls[k].op = op /\ calls[k].image = e.image
                  /\ calls[k].tag = e.tag].result
    ELSE "-"

\* C9: the outcome of a tag processed without transport error follows from
\* the registry's answers: no digest gives ("Image not found", 404); a digest
\* and a successful delete give ("Image deleted", 200); a digest and an
\* unsuccessful delete give ("Image not deleted", 202).
C9_OutcomeFollowsRegistry ==
    \A m \in 1..Len(messages) :
        LET e  == messages[m]
            dg == ResultOf("getDigest", e)
            dl == ResultOf("deleteTag", e)
        IN  (IsOutcome(e) /\ dg \notin Exceptions /\ dl \notin Exceptions) =>
               /\ dg = "none" => e.message = "Image not found" /\ e.code = 404
               /\ (dg = "found" /\ dl = "true")
                     => e.message = "Image deleted" /\ e.code = 200
               /\ (dg = "found" /\ dl = "false")
                     => e.message = "Image not deleted" /\ e.code = 202
               /\ <<e.message, e.code>> \in
                     { <<"Image not found", 404>>, <<"Image deleted", 200>>,
                       <<"Image not deleted", 202>> }
               /\ dg \in {"none", "found"}
               /\ dg = "found" <=> dl \in {"true", "false"}

C9_Witness ==
    /\ pc = "done"
    /\ \E a, b, c \in 1..Len(response.body) :
          /\ IsOutcome(response.body[a]) /\ response.body[a].code = 404
          /\ IsOutcome(response.body[b]) /\ response.body[b].code = 200
          /\ IsOutcome(response.body[c]) /\ response.body[c].code = 202

\* C10 (as claimed): with an attribute name configured, a successful lookup
\* gives the template; a "not found" failure gives the configured default
\* template, or the built-in default when none is configured; every other
\* failure of the lookup is raised and aborts the request.
C10_OnlyNotFoundFallsBack ==
    (pc \in {"images", "tags", "done"} /\ lookup.exc # "unused"
     /\ data.keys = AllKeys) =>
        /\ lookup.exc = "none" => image_template = lookup.value
        /\ lookup.code = 404 =>
              image_template = (IF env.IMAGE_NAME_TEMPLATE.set
                                THEN env.IMAGE_NAME_TEMPLATE.value
                                ELSE <<PH_project_path, "/", PH_branch>>)
        /\ lookup.code \notin {200, 404} =>
              /\ response.kind = "error"
              /\ response.error = lookup.exc
              /\ images = <<>>
              /\ ~RegistryCalled

\* C11 (as claimed): the slug of every branch name is empty or matches
\* ^[a-z0-9]([a-z0-9-]{0,61}[a-z0-9])?$ : at most 63 characters of
\* [a-z0-9-], the first and the last of them not a hyphen.
C11_SlugMatchesPattern ==
    spc \in {"slug", "again"} =>
        \/ slug = <<>>
        \/ /\ Len(slug) <= 63
           /\ \A k \in 1..Len(slug) :
                 slug[k] \in LowerLetters \cup DigitChars \cup {"-"}
           /\ slug[1] # "-"
           /\ slug[Len(slug)] # "-"

\* C12: the four steps applied to a slug they produced give the same slug.
C12_SlugIsIdempotent == spc = "again" => slug2 = slug

C12_Witness ==
    /\ spc = "again"
    /\ Len(branch) > 63
    /\ slug # branch
    /\ Len(slug) < 63
    /\ slug2 = slug

\* the generator has yielded its names
Resolved ==
    pc \in {"images", "tags", "done"} /\ image_template # <<>>
    /\ "source_branch" \in data.keys

\* C13: the resolver yields one image name per comma-separated piece of the
\* template, in the order of the template, each the piece with the slug of
\* the branch and the path of the source project put in: for the path g/a
\* and the branch Fix_1 the default template yields g/a/fix-1 alone, and a
\* template of two pieces yields its two names in the order written.
C13_OneImagePerPiece ==
    Resolved =>
        /\ Len(images) =
              1 + Cardinality({k \in 1..Len(image_template) : image_template[k] = ","})
        /\ image_template = <<"%(project_path)s", "/", "%(branch)s">> =>
              images = << <<"g","/","a","/","f","i","x","-","1">> >>
        /\ image_template = <<"%(project_path)s", "/", "a">> =>
              images = << <<"g","/","a","/","a">> >>
        /\ image_template = <<"%(project_path)s", "/", "%(branch)s", ",",
                              "%(project_path)s", "/", "c", "/", "%(branch)s">> =>
              images = << <<"g","/","a","/","f","i","x","-","1">>,
                          <<"g","/","a","/","c","/","f","i","x","-","1">> >>
        /\ \A k \in 1..Len(images) : \A n \in 1..Len(images[k]) :
              images[k][n] \notin {",", "%(project_path)s", "%(branch)s"}

C13_Witness ==
    /\ Resolved
    /\ pc = "images"
    /\ i = 1
    /\ Len(images) = 2
    /\ images[1] # images[2]
    /\ data.source_branch = <<"F","i","x","_","1">>

\* the (image, tag) pairs the registry listed in the calls cs, in order
RECURSIVE ListedPairs(_)
ListedPairs(cs) ==
    IF cs = <<>> THEN <<>>
    ELSE (IF Head(cs).op = "listTags"
          THEN [k \in 1..Len(Head(cs).tags) |-> <<Head(cs).image, Head(cs).tags[k]>>]
          ELSE <<>>) \o ListedPairs(Tail(cs))

\* the (image, tag) pairs of the calls of cs to op, in order
RECURSIVE CalledPairs(_, _)
CalledPairs(cs, op) ==
    IF cs = <<>> THEN <<>>
    ELSE (IF Head(cs).op = op THEN << <<Head(cs).image, Head(cs).tag>> >> ELSE <<>>)
         \o CalledPairs(Tail(cs), op)

\* the images of the listTags calls of cs, in order
RECURSIVE ListedImages(_)
ListedImages(cs) ==
    IF cs = <<>> THEN <<>>
    ELSE (IF Head(cs).op = "listTags" THEN <<Head(cs).image>> ELSE <<>>)
         \o ListedImages(Tail(cs))

\* the (image, tag) pairs of the outcomes of body, in order
RECURSIVE OutcomePairs(_)
OutcomePairs(body) ==
    IF body = <<>> THEN <<>>
    ELSE (IF IsOutcome(Head(body))
          THEN << <<Head(body).image, Head(body).tag>> >> ELSE <<>>)
         \o OutcomePairs(Tail(body))

IsPrefix(a, b) == Len(a) <= Len(b) /\ a = SubSeq(b, 1, Len(a))

NeverAborted == \A k \in CallIndexes : ~Aborting(k)

\* C14: registry work and outcomes follow one sequential order.  Images are
\* listed in the order of the resolver; an image is listed only when every
\* tag listed before has its outcome; tags are handled in the order they were
\* listed; and the response of a run that does not abort has exactly one
\* outcome per listed (image, tag), in that order, with its image and tag.
C14_OneSequentialOrder ==
    /\ IsPrefix(ListedImages(calls), images)
    /\ IsPrefix(CalledPairs(calls, "getDigest"), ListedPairs(calls))
    /\ response.kind # "error" =>
          /\ IsPrefix(OutcomePairs(messages), ListedPairs(calls))
          /\ OutcomePairs(messages) = CalledPairs(calls, "getDigest")
    /\ \A k \in CallIndexes : calls[k].op = "listTags" =>
          CalledPairs(SubSeq(calls, 1, k - 1), "getDigest")
             = ListedPairs(SubSeq(calls, 1, k - 1))
    /\ (pc = "done" /\ response.kind = "JsonResponse" /\ NeverAborted) =>
          /\ ListedImages(calls) = images
          /\ Len(response.body) = Len(ListedPairs(calls))
          /\ OutcomePairs(response.body) = ListedPairs(calls)

C14_Witness ==
    /\ pc = "done"
    /\ response.kind = "JsonResponse"
    /\ NeverAborted
    /\ Len(images) = 2
    /\ Len(response.body) = 4
    /\ response.body[1].image = images[1] /\ response.body[1].tag = 2
    /\ response.body[2].image = images[1] /\ response.body[2].tag = 1
    /\ response.body[3].image = images[2] /\ response.body[3].tag = 2
    /\ response.body[4].image = images[2] /\ response.body[4].tag = 1

\* the number of calls of op for the pair p = <<image, tag>>
CountCalls(op, p) ==
    Cardinality({k \in CallIndexes :
                   calls[k].op = op /\ calls[k].image = p[1] /\ calls[k].tag = p[2]})

\* the pairs listed for the request
ListedPairSet == {ListedPairs(calls)[k] : k \in 1..Len(ListedPairs(calls))}

\* C15 (as claimed): deleteTag(image, tag) is called only for a resolved
\* image and a tag that listTags returned for it, right after a getDigest of
\* the same image and tag returned a digest; a tag without digest is never
\* deleted; and every call is made once: at most one listTags per image, and
\* for every listed tag exactly one getDigest and at most one deleteTag.
C15_EachCallOnce ==
    /\ \A k \in CallIndexes : calls[k].op = "deleteTag" =>
          /\ \E n \in 1..Len(images) : images[n] = calls[k].image
          /\ <<calls[k].image, calls[k].tag>> \in ListedPairSet
          /\ k > 1
          /\ calls[k - 1].op = "getDigest"
          /\ calls[k - 1].image = calls[k].image
          /\ calls[k - 1].tag = calls[k].tag
          /\ calls[k - 1].result = "found"
    /\ \A k \in CallIndexes :
          (calls[k].op = "getDigest" /\ calls[k].result # "found") =>
              CountCalls("deleteTag", <<calls[k].image, calls[k].tag>>) = 0
    /\ \A a, b \in 1..Len(ListedImages(calls)) :
          ListedImages(calls)[a] = ListedImages(calls)[b] => a = b
    /\ \A p \in ListedPairSet :
          /\ CountCalls("getDigest", p) <= 1
          /\ CountCalls("deleteTag", p) <= 1
    /\ pc = "done" => \A p \in ListedPairSet : CountCalls("getDigest", p) = 1

\* C17: on the early abort (tags null or absent for image k) the message
\* "Tags not found" leaves the status alone: the status of the response is
\* the aggregate over the outcomes of the images before k, 200 when k is the
\* first image; those outcomes stay in the body, in order, before the bare
\* message; and every deletion made is still reported, none is undone.
C17_AbortKeepsEarlierWork ==
    \A k \in CallIndexes : Aborting(k) =>
        LET body == response.body
            n    == Len(body)
        IN  /\ response.status = status
            /\ response.status = LastNon200(body, n - 1)
            /\ ImageIndex(k) = 1 => response.status = 200 /\ n = 1
            /\ \A m \in 1..(n - 1) : IsOutcome(body[m])
            /\ ~IsOutcome(body[n])
            /\ OutcomePairs(body) = ListedPairs(calls)
            /\ OutcomePairs(body) = CalledPairs(calls, "getDigest")
            /\ \A d \in CallIndexes :
                  (calls[d].op = "deleteTag" /\ calls[d].result = "true")
                      => HasOutcome(body, d, "Image deleted", 200)
            /\ \A d \in CallIndexes :
                  calls[d].op \in {"getProject", "getCustomAttribute", "listTags",
                                   "getDigest", "deleteTag"}

C17_Witness ==
    /\ pc = "done"
    /\ response.kind = "JsonResponse"
    /\ calls # <<>>
    /\ Aborting(Len(calls))
    /\ Len(response.body) = 3
    /\ IsOutcome(response.body[1])
    /\ IsOutcome(response.body[2])
    /\ response.body[1].code = 200
    /\ response.body[2].code = 404
    /\ response.body[3] = [message |-> "Tags not found"]
    /\ response.status = 404

\* the lookup of the template failed with an error that is not caught
LookupPropagates == lookup.exc \notin {"unused", "none", "GitlabGetError"}

\* C18: when the lookup of the template fails with an error that
\* propagates, the request ends there with that error: no listTags, getDigest
\* or deleteTag was called, no outcome exists and no name was resolved; and
\* in every run the lookup comes before the first registry call.
C18_LookupFailsBeforeRegistry ==
    /\ LookupPropagates =>
          /\ pc = "done"
          /\ response.kind = "error"
          /\ response.error = lookup.exc
          /\ response.body = <<>>
          /\ ~RegistryCalled
          /\ messages = <<>>
          /\ images = <<>>
    /\ \A k \in CallIndexes : calls[k].op = "getCustomAttribute" =>
          \A m \in 1..(k - 1) : calls[m].op \notin RegistryOps

C18_Witness ==
    /\ pc = "done"
    /\ lookup.exc = "GitlabAuthenticationError"
    /\ response.kind = "error"
    /\ response.at = "get_image_delete_list"
    /\ calls[Len(calls)].op = "getCustomAttribute"

\* what cleanup computes from the calls cs it made and their results when
\* no other request runs: the outcomes and the status after call k
RECURSIVE Alone(_, _, _, _)
Alone(cs, k, msgs, st) ==
    IF k > Len(cs) THEN [messages |-> msgs, status |-> st]
    ELSE IF cs[k].op = "listTags"
    THEN IF cs[k].result \in {"null", "absent"}
         THEN [messages |-> TagsNotFoundBody(msgs), status |-> st]
         ELSE Alone(cs, k + 1, msgs, st)
    ELSE IF cs[k].op = "getDigest"
    THEN LET res == [digest  |-> cs[k].result,
                     deleted |-> IF k < Len(cs) /\ cs[k + 1].op = "deleteTag"
                                 THEN cs[k + 1].result ELSE "-"]
             run == TryDelete(cs[k].image, cs[k].tag, res, "", st)
         IN  IF run.exc # "" THEN [messages |-> msgs, status |-> st]
             ELSE Alone(cs, k + 1, AppendMessage(msgs, run.entry), run.status)
    ELSE Alone(cs, k + 1, msgs, st)

\* C16: under every interleaving of two requests, the outcomes and the
\* status of each request are what cleanup computes alone from the calls
\* that request made and their results; every outcome names an image and a
\* tag that request listed; and the response carries them with the same
\* headers as when it runs alone.
C16_RequestsAreIsolated ==
    \A r \in Requests :
        LET q     == reqs[r]
            alone == Alone(q.calls, 1, <<>>, 200)
        IN  /\ q.messages = alone.messages
            /\ q.status = alone.status
            /\ \A m \in 1..Len(q.messages) :
                  IsOutcome(q.messages[m]) =>
                      \E k \in 1..Len(q.calls) :
                          /\ q.calls[k].op = "listTags"
                          /\ q.calls[k].image = q.messages[m].image
                          /\ \E n \in 1..Len(q.calls[k].tags) :
                                q.calls[k].tags[n] = q.messages[m].tag
            /\ q.response.kind = "JsonResponse" =>
                  /\ q.response.body = alone.messages
                  /\ q.response.status = alone.status
                  /\ q.response.headers = {ContentType}

C16_Witness ==
    /\ reqs[1].pc = "tags"
    /\ reqs[2].pc = "tags"
    /\ reqs[1].images = reqs[2].images
    /\ Len(reqs[1].messages) = 1
    /\ Len(reqs[2].messages) = 1
    /\ reqs[1].status = 404
    /\ reqs[2].status = 200

====
